---- MODULE Spec2Model ----
(***************************************************************************)
(* A model of the reader3 book server (src/server.py): the path resolver   *)
(* resolve_book_path, the lru_cache around load_book_cached, and the       *)
(* request handlers library_view, read_chapter, redirect_to_first_chapter  *)
(* and serve_image, one request at a time and as coroutines of one event   *)
(* loop.                                                                   *)
(*                                                                         *)
(* A Python str is a sequence of one-character strings.  An Optional       *)
(* value is <<>> for None and <<x>> for the value x.  The file system is   *)
(* a tree without symbolic links: a location is the sequence of names      *)
(* from "/" down to a node.                                                *)
(***************************************************************************)
EXTENDS Integers, Sequences, FiniteSets, TLC

VARIABLES
    BOOK_DIRS,  \* the configured root directories, a sequence of str
    disk,       \* the file system: [dirs, files]
    cache,      \* the entries of lru_cache, least recently used first
    recency,    \* history: every identifier ever loaded, least recently requested first
    last,       \* the outcome of the most recent call
    fresh,      \* how many identifiers of IDS have been requested so far
    extra,      \* how many requests were not the first request of an identifier
    req,        \* the arguments of a pending single call (SpecPure), else NoReq
    tasks       \* the requests the event loop has accepted (SpecLoop), else <<>>

vars == <<BOOK_DIRS, disk, cache, recency, last, fresh, extra, req, tasks>>

----------------------------------------------------------------------------
(* Optional values *)

None == <<>>
Some(x) == <<x>>
IsNone(o) == o = <<>>
The(o) == o[1]

SetMax(S) == CHOOSE m \in S : \A x \in S : x <= m
SetMin(S) == CHOOSE m \in S : \A x \in S : m <= x

\* the least, or the greatest, index of a set of indexes, 0 for the empty set
FirstOf(I) == IF I = {} THEN 0 ELSE SetMin(I)
LastOf(I) == IF I = {} THEN 0 ELSE SetMax(I)

----------------------------------------------------------------------------
(* str operations *)

\* str.find(ch): the first index of ch (1-based), 0 when absent
find(s, ch) == FirstOf({i \in 1..Len(s) : s[i] = ch})

\* str.rfind(ch): the last index of ch (1-based), 0 when absent
rfind(s, ch) == LastOf({i \in 1..Len(s) : s[i] = ch})

\* book_id.split(":", 1) of a string that contains a colon
CutAt(s, i) == <<SubSeq(s, 1, i - 1), SubSeq(s, i + 1, Len(s))>>

split1(s) == CutAt(s, find(s, ":"))

Digits == {"0", "1", "2", "3", "4", "5", "6", "7", "8", "9"}

DigitVal(c) ==
    CASE c = "0" -> 0 [] c = "1" -> 1 [] c = "2" -> 2 [] c = "3" -> 3
      [] c = "4" -> 4 [] c = "5" -> 5 [] c = "6" -> 6 [] c = "7" -> 7
      [] c = "8" -> 8 [] c = "9" -> 9

RECURSIVE strip(_)
strip(s) ==
    IF s # <<>> /\ s[1] = " " THEN strip(Tail(s))
    ELSE IF s # <<>> /\ s[Len(s)] = " " THEN strip(SubSeq(s, 1, Len(s) - 1))
    ELSE s

RECURSIVE DecVal(_, _)
DecVal(s, acc) ==
    IF s = <<>> THEN acc
    ELSE IF s[1] = "_" THEN DecVal(Tail(s), acc)
    ELSE DecVal(Tail(s), 10 * acc + DigitVal(s[1]))

\* int(s): surrounding blanks, one optional sign, decimal digits that single
\* underscores may separate; anything else raises ValueError (ok = FALSE)
IsSigned(t) == t # <<>> /\ t[1] \in {"+", "-"}

IsNumeral(body) ==
    /\ body # <<>>
    /\ body[1] \in Digits
    /\ body[Len(body)] \in Digits
    /\ \A i \in 1..Len(body) : body[i] \in Digits \cup {"_"}
    /\ \A i \in 1..(Len(body) - 1) : ~(body[i] = "_" /\ body[i + 1] = "_")

IntOf(t, body) ==
    [ok |-> IsNumeral(body),
     val |-> IF ~IsNumeral(body) THEN 0
             ELSE IF IsSigned(t) /\ t[1] = "-" THEN 0 - DecVal(body, 0)
             ELSE DecVal(body, 0)]

IntOfStripped(t) == IntOf(t, IF IsSigned(t) THEN Tail(t) ELSE t)

py_int(s) == IntOfStripped(strip(s))

----------------------------------------------------------------------------
(* os.path *)

join2(a, b) ==
    IF b # <<>> /\ b[1] = "/" THEN b
    ELSE IF a = <<>> \/ a[Len(a)] = "/" THEN a \o b
    ELSE a \o <<"/">> \o b

\* os.path.join(parts[1], *parts[2:])
RECURSIVE os_path_join(_)
os_path_join(parts) ==
    IF Len(parts) = 1 THEN parts[1]
    ELSE join2(os_path_join(SubSeq(parts, 1, Len(parts) - 1)), parts[Len(parts)])

\* os.path.basename(p)
os_path_basename(p) == SubSeq(p, rfind(p, "/") + 1, Len(p))

\* the components of a path between its slashes, empty ones included
RECURSIVE SplitSlash(_)
SplitAt(s, i) ==
    IF i = 0 THEN <<s>>
    ELSE <<SubSeq(s, 1, i - 1)>> \o SplitSlash(SubSeq(s, i + 1, Len(s)))

SplitSlash(s) == SplitAt(s, find(s, "/"))

DOT == <<".">>
DOTDOT == <<".", ".">>
PKL == <<"b", "o", "o", "k", ".", "p", "k", "l">>
IMAGES == <<"i", "m", "a", "g", "e", "s">>

\* the working directory of the process, a location
CWD == << <<"L">> >>

\* what path resolution yields for a path that names nothing
NoLoc == << <<"ENOENT">> >>

Parent(loc) == IF loc = <<>> THEN <<>> ELSE SubSeq(loc, 1, Len(loc) - 1)

IsNode(d, loc) == loc \in d.dirs \/ loc \in DOMAIN d.files

\* the kernel's path walk: the location a path names, NoLoc when a component
\* is missing (ENOENT) or a non-directory is walked through (ENOTDIR)
RECURSIVE Walk(_, _, _)
Walk(d, cur, comps) ==
    IF comps = <<>> THEN cur
    ELSE IF cur \notin d.dirs THEN NoLoc
    ELSE LET c == Head(comps)
         IN  IF c = <<>> \/ c = DOT THEN Walk(d, cur, Tail(comps))
             ELSE IF c = DOTDOT THEN Walk(d, Parent(cur), Tail(comps))
             ELSE IF IsNode(d, Append(cur, c)) THEN Walk(d, Append(cur, c), Tail(comps))
             ELSE NoLoc

Locate(d, p) ==
    IF p = <<>> THEN NoLoc
    ELSE Walk(d, IF p[1] = "/" THEN <<>> ELSE CWD, SplitSlash(p))

\* os.path.exists(p)
os_path_exists(d, p) == Locate(d, p) # NoLoc

\* the names of a path, in order, without the empty ones slashes leave
Names(p) == SelectSeq(SplitSlash(p), LAMBDA c : c # <<>>)

IsAbsolute(p) == p # <<>> /\ p[1] = "/"

\* where a path points by its text alone: "." dropped, ".." one level up
RECURSIVE Lexical(_, _)
Lexical(cur, comps) ==
    IF comps = <<>> THEN cur
    ELSE IF Head(comps) = <<>> \/ Head(comps) = DOT THEN Lexical(cur, Tail(comps))
    ELSE IF Head(comps) = DOTDOT THEN Lexical(Parent(cur), Tail(comps))
    ELSE Lexical(Append(cur, Head(comps)), Tail(comps))

Where(p) == Lexical(IF IsAbsolute(p) THEN <<>> ELSE CWD, SplitSlash(p))

\* the text of the absolute path of a location
RECURSIVE PathOf(_)
PathOf(loc) ==
    IF loc = <<>> THEN <<"/">>
    ELSE IF Len(loc) = 1 THEN <<"/">> \o loc[1]
    ELSE PathOf(Parent(loc)) \o <<"/">> \o loc[Len(loc)]

\* os.path.abspath(p): normpath(join(getcwd(), p))
os_path_abspath(p) == PathOf(Where(p))

\* os.path.isdir(p)
os_path_isdir(d, p) == Locate(d, p) \in d.dirs

\* the names of the nodes directly under a location
Children(d, loc) ==
    {l[Len(l)] : l \in {n \in d.dirs \cup DOMAIN d.files :
                            Len(n) = Len(loc) + 1 /\ Parent(n) = loc}}

\* every order of the elements of a set
Orders(S) ==
    {f \in [1..Cardinality(S) -> S] : \A i, j \in 1..Cardinality(S) : f[i] = f[j] => i = j}

\* os.listdir(p) of an existing directory: its names, in an order the file
\* system chooses
os_listdir(d, p) == Orders(Children(d, Locate(d, p)))

----------------------------------------------------------------------------
(* resolve_book_path *)

\* lines 38-44: the fallback scan, from root number i on
RECURSIVE fallback_scan(_, _, _, _)
\* lines 40-42, one round of the loop
fallback_step(dirs, d, book_id, i, pkl_path) ==
    IF os_path_exists(d, pkl_path)
    THEN [path |-> Some(pkl_path),
          folder |-> Some(os_path_join(<<dirs[i], book_id>>))]
    ELSE fallback_scan(dirs, d, book_id, i + 1)

fallback_scan(dirs, d, book_id, i) ==
    IF i > Len(dirs) THEN [path |-> None, folder |-> None]
    ELSE fallback_step(dirs, d, book_id, i, os_path_join(<<dirs[i], book_id, PKL>>))

\* a variant of scoped_index without the lower bound of line 32's range test,
\* so that a negative index counts from the end of the list
index_from_end(dirs, idx) ==
    IF idx.ok /\ idx.val < Len(dirs) /\ 0 - idx.val <= Len(dirs)
    THEN Some(IF idx.val < 0 THEN Len(dirs) + idx.val ELSE idx.val)
    ELSE None

scoped_index_negative(dirs, book_id) ==
    IF find(book_id, ":") = 0 THEN None
    ELSE index_from_end(dirs, py_int(split1(book_id)[1]))

\* lines 28-36: the index the try block accepts, None when the identifier has
\* no colon, int() raises ValueError or the index is out of range
\* line 32, for idx the result of line 31's int(idx_s)
index_in_range(dirs, idx) ==
    IF idx.ok /\ 0 <= idx.val /\ idx.val < Len(dirs) THEN Some(idx.val) ELSE None

scoped_index(dirs, book_id) ==
    IF find(book_id, ":") = 0 THEN None
    ELSE index_in_range(dirs, py_int(split1(book_id)[1]))

\* lines 33-34
scoped_result(base_dir, folder) ==
    [path |-> Some(os_path_join(<<base_dir, folder, PKL>>)),
     folder |-> Some(os_path_join(<<base_dir, folder>>))]

\* the function body, for idx the index lines 28-36 accept
resolve_with(dirs, d, book_id, idx) ==
    IF ~IsNone(idx)
    THEN scoped_result(dirs[The(idx) + 1], split1(book_id)[2])
    ELSE fallback_scan(dirs, d, book_id, 1)

resolve_book_path(dirs, d, book_id) ==
    resolve_with(dirs, d, book_id, scoped_index(dirs, book_id))

----------------------------------------------------------------------------
(* The configurations and the disk the model runs on *)

ROOT_L == <<"/", "L">>
ROOT_M == <<"/", "M">>
ROOT_N == <<"/", "N">>
ROOT_P == <<"/", "P">>

\* line 19 sets the default [ "." ]; lines 164-165 take the roots from argv
RootConfigs == {<<ROOT_L, ROOT_M>>, <<DOT>>, <<ROOT_M \o <<"/">>, ROOT_L>>}

nL == <<"L">>
nM == <<"M">>
nA == <<"a">>
nB == <<"b">>
nC == <<"c">>
nD == <<"d">>
nE == <<"e">>
nP == <<"p">>
nS == <<"s">>
n2A == <<"2", ":", "a">>
nAA == <<"a", ":", "a">>
nN == <<"N">>
nPP == <<"P">>

\* line 93: the suffix of a book-data folder
DATA == <<"_", "d", "a", "t", "a">>

nX == <<"x">> \o DATA
nY == <<"y">> \o DATA
nZ == <<"z">> \o DATA
nW == <<"w">> \o DATA
nV == <<"v">> \o DATA

BookFile(spine) == [kind |-> "book", spine |-> spine]
OtherFile(kind) == [kind |-> kind, spine |-> <<>>]

\* /book.pkl and /images/p lie above both roots; a is a book folder of both
\* roots; b exists under /M only; /L/c/book.pkl does not deserialize;
\* /L/d/book.pkl is a directory; /M/e holds a book without chapters.
\* /N and /P hold book-data folders: x_data is a book of both; /N/y_data has
\* no snapshot; /N/z_data is a file; /N/a is a book folder without the
\* suffix; /P/w_data is a book without chapters; /P/v_data/book.pkl does not
\* deserialize
Disk0 ==
    [dirs |-> {<<>>, <<IMAGES>>, <<nL>>, <<nM>>,
               <<nN>>, <<nN, nX>>, <<nN, nY>>, <<nN, nA>>,
               <<nPP>>, <<nPP, nX>>, <<nPP, nX, IMAGES>>, <<nPP, nW>>, <<nPP, nV>>,
               <<nL, nA>>, <<nL, nA, IMAGES>>, <<nL, nC>>, <<nL, nD>>,
               <<nL, nD, PKL>>, <<nL, n2A>>,
               <<nM, nA>>, <<nM, nB>>, <<nM, nE>>, <<nM, nAA>>},
     files |-> (<<PKL>> :> BookFile(<<"X0">>))
            @@ (<<IMAGES, nP>> :> OtherFile("image"))
            @@ (<<nL, nA, PKL>> :> BookFile(<<"A0", "A1", "A2">>))
            @@ (<<nL, nA, nS>> :> OtherFile("other"))
            @@ (<<nL, nA, IMAGES, nP>> :> OtherFile("image"))
            @@ (<<nL, nC, PKL>> :> OtherFile("corrupt"))
            @@ (<<nL, n2A, PKL>> :> BookFile(<<"T0", "T1">>))
            @@ (<<nM, nA, PKL>> :> BookFile(<<"M0">>))
            @@ (<<nM, nB, PKL>> :> BookFile(<<"B0", "B1">>))
            @@ (<<nM, nE, PKL>> :> BookFile(<<>>))
            @@ (<<nM, nAA, PKL>> :> BookFile(<<"K0">>))
            @@ (<<nN, nX, PKL>> :> BookFile(<<"N0", "N1">>))
            @@ (<<nN, nZ>> :> OtherFile("other"))
            @@ (<<nN, nA, PKL>> :> BookFile(<<"N2">>))
            @@ (<<nPP, nX, PKL>> :> BookFile(<<"P0">>))
            @@ (<<nPP, nX, IMAGES, nP>> :> OtherFile("image"))
            @@ (<<nPP, nW, PKL>> :> BookFile(<<>>))
            @@ (<<nPP, nV, PKL>> :> OtherFile("corrupt"))]

----------------------------------------------------------------------------
(* load_book_cached *)

\* lines 57-58: open(file_path, "rb") and pickle.load(f) on an existing path.
\* raised: the exception, "" when the snapshot deserializes
open_and_load(d, loc) ==
    IF loc \in d.dirs
    THEN [raised |-> "IsADirectoryError", value |-> None]
    ELSE IF d.files[loc].kind # "book"
    THEN [raised |-> "UnpicklingError", value |-> None]
    ELSE [raised |-> "", value |-> Some([spine |-> d.files[loc].spine])]

\* a variant of except_Exception that catches pickle's own error only
except_UnpicklingError(exc) == exc = "UnpicklingError"

\* line 60: except Exception catches every exception open and pickle raise
except_Exception(exc) == TRUE

\* lines 52-62, the function lru_cache wraps.  how: which return statement
\* ran; opened: the location open() was called on; error: the exception that
\* leaves the function, "" when it returns
\* lines 56-62, for r the result of open and pickle.load at loc
load_result(loc, r) ==
    IF r.raised = ""
    THEN [value |-> r.value, how |-> "loaded", opened |-> Some(loc), error |-> ""]
    ELSE IF except_Exception(r.raised)
    THEN [value |-> None, how |-> "raised", opened |-> Some(loc), error |-> ""]
    ELSE [value |-> None, how |-> "error", opened |-> Some(loc), error |-> r.raised]

load_at(d, loc) == load_result(loc, open_and_load(d, loc))

\* lines 53-62, for file_path the path line 52 resolved
load_path(d, file_path) ==
    IF IsNone(file_path) \/ The(file_path) = <<>>
    THEN [value |-> None, how |-> "nopath", opened |-> None, error |-> ""]
    ELSE IF ~os_path_exists(d, The(file_path))
    THEN [value |-> None, how |-> "missing", opened |-> None, error |-> ""]
    ELSE load_at(d, Locate(d, The(file_path)))

load_book(dirs, d, book_id) ==
    load_path(d, resolve_book_path(dirs, d, book_id).path)

\* line 46
maxsize == 10

\* a variant of lru_index that compares the folder names of the keys and
\* not their root index
lru_index_by_folder(c, key) ==
    FirstOf({i \in 1..Len(c) :
                SubSeq(c[i].key, find(c[i].key, ":") + 1, Len(c[i].key))
                    = SubSeq(key, find(key, ":") + 1, Len(key))})

\* the entry of key, 0 on a miss: lru_cache compares the whole argument
lru_index(c, key) == FirstOf({i \in 1..Len(c) : c[i].key = key})

\* a variant of lru_hit that leaves the order as it is, as a FIFO cache does
lru_hit_in_place(c, i) == c

\* a hit moves the entry to the most recently used end
lru_hit(c, i) ==
    SubSeq(c, 1, i - 1) \o SubSeq(c, i + 1, Len(c)) \o <<c[i]>>

\* a miss stores the result, in the place of the oldest entry when full
lru_store(c, key, value) ==
    IF Len(c) >= maxsize
    THEN Append(Tail(c), [key |-> key, value |-> value])
    ELSE Append(c, [key |-> key, value |-> value])

\* a variant of lru_stores that stores loaded books only
lru_stores_books_only(value) == ~IsNone(value)

\* whether the wrapper stores a returned value: every one, None included
lru_stores(value) == TRUE

\* a hit on entry i
lru_hit_result(c, i) ==
    [cache |-> lru_hit(c, i), value |-> c[i].value, hit |-> TRUE,
     how |-> "hit", opened |-> None, resolves |-> 0, error |-> ""]

\* a miss, for r the outcome of the wrapped function
lru_miss_result(c, book_id, r) ==
    [cache |-> IF r.error = "" /\ lru_stores(r.value)
               THEN lru_store(c, book_id, r.value) ELSE c,
     value |-> r.value, hit |-> FALSE,
     how |-> r.how, opened |-> r.opened, resolves |-> 1, error |-> r.error]

\* a variant of lru_lookup that does not trust an entry that holds None and
\* loads again
lru_lookup_books_only(dirs, d, c, book_id, i) ==
    IF i # 0 /\ ~IsNone(c[i].value) THEN lru_hit_result(c, i)
    ELSE lru_miss_result(c, book_id, load_book(dirs, d, book_id))

lru_lookup(dirs, d, c, book_id, i) ==
    IF i # 0 THEN lru_hit_result(c, i)
    ELSE lru_miss_result(c, book_id, load_book(dirs, d, book_id))

load_book_cached(dirs, d, c, book_id) ==
    lru_lookup(dirs, d, c, book_id, lru_index(c, book_id))

----------------------------------------------------------------------------
(* The handlers.  An outcome records what a call did and returned. *)

NoOutcome ==
    [op |-> "none", book_id |-> <<>>, status |-> "none", detail |-> "",
     value |-> None, hit |-> FALSE, how |-> "none", opened |-> None,
     resolves |-> 0, repeat |-> FALSE,
     path |-> None, folder |-> None,
     chapter_index |-> None, current_chapter |-> None,
     prev_idx |-> None, next_idx |-> None,
     image_name |-> None, img_path |-> None,
     dir_index |-> None, target_idx |-> None,
     books |-> <<>>, directories |-> <<>>, loaded |-> <<>>]

LoadOps == {"load_book_cached", "read_chapter"}

\* what the load inside a call adds to its outcome; repeat: the call before
\* this one loaded the same identifier
LoadPart(o, prev, lr) ==
    [o EXCEPT !.value = lr.value, !.hit = lr.hit, !.how = lr.how,
              !.opened = lr.opened, !.resolves = lr.resolves,
              !.status = IF lr.error = "" THEN "ok" ELSE "error",
              !.detail = lr.error,
              !.repeat = prev.op \in LoadOps /\ prev.book_id = o.book_id]

\* a variant of read_chapter_body whose upper range test and next link are
\* off by one
read_chapter_body_off_by_one(o, lr, chapter_index) ==
    IF lr.error # "" THEN o
    ELSE IF IsNone(lr.value)
    THEN [o EXCEPT !.status = "404", !.detail = "Book not found"]
    ELSE LET spine == The(lr.value).spine
         IN  IF chapter_index < 0 \/ chapter_index >= Len(spine)
             THEN [o EXCEPT !.status = "404", !.detail = "Chapter not found"]
             ELSE [o EXCEPT !.status = "ok",
                            !.current_chapter = Some(spine[chapter_index + 1]),
                            !.prev_idx = IF chapter_index > 0
                                         THEN Some(chapter_index - 1) ELSE None,
                            !.next_idx = IF chapter_index < Len(spine)
                                         THEN Some(chapter_index + 1) ELSE None]

\* lines 120-141, given the result lr of line 120's load_book_cached
read_chapter_body(o, lr, chapter_index) ==
    IF lr.error # "" THEN o
    ELSE IF IsNone(lr.value)
    THEN [o EXCEPT !.status = "404", !.detail = "Book not found"]
    ELSE LET spine == The(lr.value).spine
         IN  IF chapter_index < 0 \/ chapter_index >= Len(spine)
             THEN [o EXCEPT !.status = "404", !.detail = "Chapter not found"]
             ELSE [o EXCEPT !.status = "ok",
                            !.current_chapter = Some(spine[chapter_index + 1]),
                            !.prev_idx = IF chapter_index > 0
                                         THEN Some(chapter_index - 1) ELSE None,
                            !.next_idx = IF chapter_index < Len(spine) - 1
                                         THEN Some(chapter_index + 1) ELSE None]

\* the cache after chapter number k was removed from the spine of the book
\* cached for book_id
pop_chapter(c, book_id, k) ==
    [i \in 1..Len(c) |->
        IF c[i].key = book_id /\ ~IsNone(c[i].value)
           /\ k \in 0..(Len(The(c[i].value).spine) - 1)
        THEN [c[i] EXCEPT !.value =
                 Some([spine |-> SubSeq(The(c[i].value).spine, 1, k)
                                 \o SubSeq(The(c[i].value).spine, k + 2,
                                           Len(The(c[i].value).spine))])]
        ELSE c[i]]

\* a variant of read_chapter_with that takes the chapter out of the cached
\* book's spine, as book.spine.pop(chapter_index) would
read_chapter_with_pop(prev, book_id, chapter_index, lr) ==
    [cache |-> pop_chapter(lr.cache, book_id, chapter_index),
     out |-> read_chapter_body(
                LoadPart([NoOutcome EXCEPT !.op = "read_chapter",
                                           !.book_id = book_id,
                                           !.chapter_index = Some(chapter_index)],
                         prev, lr),
                lr, chapter_index)]

\* read_chapter(request, book_id, chapter_index): [cache, out]
read_chapter_with(prev, book_id, chapter_index, lr) ==
    [cache |-> lr.cache,
     out |-> read_chapter_body(
                LoadPart([NoOutcome EXCEPT !.op = "read_chapter",
                                           !.book_id = book_id,
                                           !.chapter_index = Some(chapter_index)],
                         prev, lr),
                lr, chapter_index)]

read_chapter(dirs, d, c, prev, book_id, chapter_index) ==
    read_chapter_with(prev, book_id, chapter_index,
                      load_book_cached(dirs, d, c, book_id))

\* line 118: the parameters of read_chapter, none of which has a default
read_chapter_params == {"request", "book_id", "chapter_index"}

\* line 115: the keyword arguments redirect_to_first_chapter passes
redirect_call_kwargs == {"book_id", "chapter_index"}

AsRedirect(r) ==
    [cache |-> r.cache, out |-> [r.out EXCEPT !.op = "redirect_to_first_chapter"]]

\* redirect_to_first_chapter(book_id): a call that leaves a required
\* parameter unbound raises TypeError before the callee's body runs
redirect_to_first_chapter(dirs, d, c, prev, book_id) ==
    IF read_chapter_params \subseteq redirect_call_kwargs
    THEN AsRedirect(read_chapter(dirs, d, c, prev, book_id, 0))
    ELSE [cache |-> c,
          out |-> [NoOutcome EXCEPT !.op = "redirect_to_first_chapter",
                                    !.book_id = book_id,
                                    !.chapter_index = Some(0),
                                    !.status = "error", !.detail = "TypeError"]]

\* line 152
safe_image_name(image_name) == os_path_basename(image_name)

\* serve_image(book_id, image_name), lines 148-158
\* lines 155-158
serve_path(d, o, img_path) ==
    IF ~os_path_exists(d, img_path)
    THEN [o EXCEPT !.status = "404", !.detail = "Image not found",
                   !.img_path = Some(img_path)]
    ELSE [o EXCEPT !.status = "ok", !.img_path = Some(img_path)]

\* lines 149-158, for book_folder the folder line 148 resolved
serve_from(d, o, book_folder, image_name) ==
    IF IsNone(book_folder) \/ The(book_folder) = <<>>
    THEN [o EXCEPT !.status = "404", !.detail = "Book path not found"]
    ELSE serve_path(d, [o EXCEPT !.folder = book_folder],
                    os_path_join(<<The(book_folder), IMAGES,
                                   safe_image_name(image_name)>>))

serve_image(dirs, d, book_id, image_name) ==
    serve_from(d, [NoOutcome EXCEPT !.op = "serve_image", !.book_id = book_id,
                                    !.image_name = Some(image_name)],
               resolve_book_path(dirs, d, book_id).folder, image_name)

\* a variant of serve_image_cache that loads the book to find its folder
serve_image_cache_loading(dirs, d, c, book_id, image_name) ==
    load_book_cached(dirs, d, c, book_id).cache

\* the cache after serve_image: lines 143-158 hold no call of
\* load_book_cached, the handler reads the resolver's folder only
serve_image_cache(dirs, d, c, book_id, image_name) == c

----------------------------------------------------------------------------
(* library_view *)

DigitChar(n) ==
    CASE n = 0 -> "0" [] n = 1 -> "1" [] n = 2 -> "2" [] n = 3 -> "3"
      [] n = 4 -> "4" [] n = 5 -> "5" [] n = 6 -> "6" [] n = 7 -> "7"
      [] n = 8 -> "8" [] n = 9 -> "9"

\* str(n), as the f-string of line 98 formats an int
RECURSIVE py_str(_)
py_str(n) ==
    IF n < 0 THEN <<"-">> \o py_str(0 - n)
    ELSE IF n < 10 THEN <<DigitChar(n)>>
    ELSE Append(py_str(n \div 10), DigitChar(n % 10))

\* str.endswith(suffix)
endswith(s, suffix) ==
    Len(s) >= Len(suffix) /\ SubSeq(s, Len(s) - Len(suffix) + 1, Len(s)) = suffix

\* a variant of scoped_id that leaves the root's index out
unscoped_id(target_idx, item) == item

\* line 98: f"{target_idx}:{item}"
scoped_id(target_idx, item) == py_str(target_idx) \o <<":">> \o item

\* line 102, if book: None is false; a Book defines neither __bool__ nor
\* __len__, so every Book is true
truthy(book) == ~IsNone(book)

\* lines 103-108: the entry of a book (title and authors are not modelled)
book_entry(id, book) == [id |-> id, chapters |-> Len(book.spine)]

\* a variant of target_index that lets a negative index count from the end
\* of the list, as indexing a list does
target_index_from_end(dirs, dir_index) ==
    IF IsNone(dir_index) THEN 0
    ELSE IF The(dir_index) >= Len(dirs) \/ 0 - The(dir_index) > Len(dirs) THEN 0
    ELSE IF The(dir_index) < 0 THEN Len(dirs) + The(dir_index)
    ELSE The(dir_index)

\* lines 82-86
target_index(dirs, dir_index) ==
    IF IsNone(dir_index) THEN 0
    ELSE IF The(dir_index) < 0 \/ The(dir_index) >= Len(dirs) THEN 0
    ELSE The(dir_index)

\* lines 92-108: the loop over items, from item number i on.  books: the
\* entries so far; loaded: the identifiers passed to load_book_cached so far
RECURSIVE list_books(_, _, _, _, _, _, _, _)
\* lines 102-108, for lr the result of line 101's load_book_cached(id)
list_book(dirs, d, target_idx, items, i, books, loaded, id, lr) ==
    IF lr.error # ""
    THEN [cache |-> lr.cache, books |-> books, loaded |-> Append(loaded, id),
          error |-> lr.error]
    ELSE list_books(dirs, d, lr.cache, target_idx, items, i + 1,
                    IF truthy(lr.value)
                    THEN Append(books, book_entry(id, The(lr.value)))
                    ELSE books,
                    Append(loaded, id))

\* lines 98-108
list_item(dirs, d, c, target_idx, items, i, books, loaded, id) ==
    list_book(dirs, d, target_idx, items, i, books, loaded, id,
              load_book_cached(dirs, d, c, id))

list_books(dirs, d, c, target_idx, items, i, books, loaded) ==
    IF i > Len(items)
    THEN [cache |-> c, books |-> books, loaded |-> loaded, error |-> ""]
    ELSE IF endswith(items[i], DATA)
            /\ os_path_isdir(d, os_path_join(<<dirs[target_idx + 1], items[i]>>))
    THEN list_item(dirs, d, c, target_idx, items, i, books, loaded,
                   scoped_id(target_idx, items[i]))
    ELSE list_books(dirs, d, c, target_idx, items, i + 1, books, loaded)

\* lines 73-78: one entry of the list of directories
directory_entry(dirs, i) ==
    [name |-> IF os_path_basename(os_path_abspath(dirs[i])) # <<>>
              THEN os_path_basename(os_path_abspath(dirs[i]))
              ELSE dirs[i],
     path |-> os_path_abspath(dirs[i]),
     index |-> i - 1]

\* lines 72-79
list_directories(dirs) == [i \in 1..Len(dirs) |-> directory_entry(dirs, i)]

\* the response of the listing, for r the result of the loop
listing(c, o, r) ==
    [cache |-> r.cache,
     out |-> [o EXCEPT !.status = IF r.error = "" THEN "ok" ELSE "error",
                       !.detail = r.error,
                       !.books = r.books, !.loaded = r.loaded]]

\* lines 88-110, for target_idx the index lines 82-86 set.  items: what
\* os.listdir returns when line 92 calls it
list_target(dirs, d, c, o, target_idx, items) ==
    IF ~os_path_exists(d, dirs[target_idx + 1])
    THEN [cache |-> c, out |-> [o EXCEPT !.status = "ok"]]
    ELSE IF ~os_path_isdir(d, dirs[target_idx + 1])
    THEN [cache |-> c,
          out |-> [o EXCEPT !.status = "error", !.detail = "NotADirectoryError"]]
    ELSE listing(c, o, list_books(dirs, d, c, target_idx, items, 1, <<>>, <<>>))

\* library_view(request, dir_index): [cache, out]
library_view(dirs, d, c, dir_index, items) ==
    IF Len(dirs) > 1 /\ IsNone(dir_index)
    THEN [cache |-> c,
          out |-> [NoOutcome EXCEPT !.op = "library_view", !.status = "ok",
                                    !.directories = list_directories(dirs)]]
    ELSE list_target(dirs, d, c,
                     [NoOutcome EXCEPT !.op = "library_view",
                                       !.dir_index = dir_index,
                                       !.target_idx = Some(target_index(dirs, dir_index))],
                     target_index(dirs, dir_index), items)

\* what os.listdir may return at line 92 of a call library_view(dir_index)
listdir_results(dirs, d, dir_index) ==
    IF os_path_isdir(d, dirs[target_index(dirs, dir_index) + 1])
       /\ ~(Len(dirs) > 1 /\ IsNone(dir_index))
    THEN os_listdir(d, dirs[target_index(dirs, dir_index) + 1])
    ELSE {<<>>}

----------------------------------------------------------------------------
(* The requests the model issues *)

\* identifiers beyond the cache's capacity
Spare == 1
\* requests that are not the first request of an identifier
MaxExtra == 1
\* chapter indexes run from -1 to MaxIndex
MaxIndex == 3
\* the longest identifier and image name enumerated in full
MaxLen == 3

NumIds == maxsize + Spare

\* the identifiers requested, in the order of their first request
IDS ==
    << <<"0", ":", "a">>,
       <<"q">>,
       <<"a">>,
       <<"0", ":", "q">>,
       <<"1", ":", "a">>,
       <<"0", ":", "c">>,
       <<"2", ":", "a">>,
       <<"0", ":", ".", ".">>,
       <<"b">>,
       <<"1", ":", "e">>,
       <<"0", ":", "d">>,
       <<"a", ":", "a">>,
       <<"-", "1", ":", "a">>,
       <<"+", "1", ":", "b">> >>

IdSet == {IDS[j] : j \in 1..NumIds}

ChapterIndexes == (0 - 1)..MaxIndex

IdAlphabet == {"0", "1", "2", "-", "+", ":", "/", ".", "a"}
ImageAlphabet == {"/", ".", "p", "s"}

Strings(alphabet, n) == UNION {[1..k -> alphabet] : k \in 0..n}

AllIds == Strings(IdAlphabet, MaxLen) \cup IdSet
AllImages == Strings(ImageAlphabet, MaxLen)
    \cup {<<".", ".", "/", ".", ".", "/", "e", "t", "c", "/", "p", "a", "s", "s", "w", "d">>,
          <<".", ".", "/", ".", ".", "/", "s">>}

\* the identifiers and image names the image requests of Spec use
ImageIds == {IDS[1], IDS[2], IDS[3], IDS[8]}
ImageNames == {<<"p">>, <<".", ".">>, <<".", ".", "/", ".", ".", "/", "s">>, <<>>}

NoReq == [pending |-> FALSE, book_id |-> <<>>, image_name |-> <<>>, chapter_index |-> 0]

\* an identifier may be requested when it is the next one of IDS, or was
\* requested before and the budget of repeated requests is not used up
Requestable ==
    {IDS[j] : j \in {k \in 1..NumIds : k = fresh + 1 \/ (k <= fresh /\ extra < MaxExtra)}}

Charge(book_id) ==
    IF fresh < NumIds /\ book_id = IDS[fresh + 1]
    THEN fresh' = fresh + 1 /\ extra' = extra
    ELSE fresh' = fresh /\ extra' = extra + 1

\* history: book_id becomes the most recently requested identifier
Touch(r, book_id) == SelectSeq(r, LAMBDA x : x # book_id) \o <<book_id>>

Init ==
    /\ BOOK_DIRS = <<ROOT_L, ROOT_M>>
    /\ disk = Disk0
    /\ cache = <<>>
    /\ recency = <<>>
    /\ last = NoOutcome
    /\ fresh = 0
    /\ extra = 0
    /\ req = NoReq
    /\ tasks = <<>>

\* a direct call load_book_cached(book_id)
\* the cache and the outcome after a direct call, for lr its result
Loaded(book_id, lr) ==
    /\ cache' = lr.cache
    /\ last' = LoadPart([NoOutcome EXCEPT !.op = "load_book_cached",
                                          !.book_id = book_id],
                        last, lr)

\* the cache and the outcome after a handler, for r its result
Handled(r) ==
    /\ cache' = r.cache
    /\ last' = r.out

LoadBookCached ==
    \E book_id \in Requestable :
        /\ Loaded(book_id, load_book_cached(BOOK_DIRS, disk, cache, book_id))
        /\ recency' = Touch(recency, book_id)
        /\ Charge(book_id)
        /\ UNCHANGED <<BOOK_DIRS, disk, req, tasks>>

\* GET /read/{book_id}/{chapter_index}
ReadChapter ==
    \E book_id \in Requestable, chapter_index \in ChapterIndexes :
        /\ Handled(read_chapter(BOOK_DIRS, disk, cache, last, book_id, chapter_index))
        /\ recency' = Touch(recency, book_id)
        /\ Charge(book_id)
        /\ UNCHANGED <<BOOK_DIRS, disk, req, tasks>>

\* GET /read/{book_id}
RedirectToFirstChapter ==
    \E book_id \in IdSet :
        /\ extra < MaxExtra
        /\ Handled(redirect_to_first_chapter(BOOK_DIRS, disk, cache, last, book_id))
        /\ recency' = IF last'.status = "error" THEN recency
                      ELSE Touch(recency, book_id)
        /\ extra' = extra + 1
        /\ UNCHANGED <<BOOK_DIRS, disk, fresh, req, tasks>>

\* GET /read/{book_id}/images/{image_name}
ServeImage ==
    \E book_id \in ImageIds, image_name \in ImageNames :
        /\ extra < MaxExtra
        /\ last' = serve_image(BOOK_DIRS, disk, book_id, image_name)
        /\ cache' = serve_image_cache(BOOK_DIRS, disk, cache, book_id, image_name)
        /\ extra' = extra + 1
        /\ UNCHANGED <<BOOK_DIRS, disk, recency, fresh, req, tasks>>

Next ==
    \/ LoadBookCached
    \/ ReadChapter
    \/ RedirectToFirstChapter
    \/ ServeImage

Spec == Init /\ [][Next]_vars

----------------------------------------------------------------------------
(* Single calls on every short identifier and image name *)

PureRequests ==
    {[pending |-> TRUE, book_id |-> b, image_name |-> <<"p">>, chapter_index |-> 0] :
        b \in AllIds}
    \cup {[pending |-> TRUE, book_id |-> b, image_name |-> i, chapter_index |-> 0] :
        b \in ImageIds, i \in AllImages}
    \cup {[pending |-> TRUE, book_id |-> b, image_name |-> <<"p">>, chapter_index |-> k] :
        b \in IdSet, k \in ChapterIndexes}

InitPure ==
    /\ BOOK_DIRS \in RootConfigs
    /\ disk = Disk0
    /\ cache = <<>>
    /\ recency = <<>>
    /\ last = NoOutcome
    /\ fresh = 0
    /\ extra = 0
    /\ req \in PureRequests
    /\ tasks = <<>>

Done == req' = [req EXCEPT !.pending = FALSE]

\* the outcome after a direct call of resolve_book_path, for r its result
Resolved(r) ==
    last' = [NoOutcome EXCEPT !.op = "resolve_book_path",
                              !.book_id = req.book_id, !.status = "ok",
                              !.path = r.path, !.folder = r.folder]

CallResolve ==
    /\ req.pending
    /\ Resolved(resolve_book_path(BOOK_DIRS, disk, req.book_id))
    /\ Done
    /\ UNCHANGED <<BOOK_DIRS, disk, cache, recency, fresh, extra, tasks>>

CallLoad ==
    /\ req.pending
    /\ Loaded(req.book_id, load_book_cached(BOOK_DIRS, disk, cache, req.book_id))
    /\ recency' = Touch(recency, req.book_id)
    /\ Done
    /\ UNCHANGED <<BOOK_DIRS, disk, fresh, extra, tasks>>

CallReadChapter ==
    /\ req.pending
    /\ Handled(read_chapter(BOOK_DIRS, disk, cache, last, req.book_id,
                            req.chapter_index))
    /\ recency' = Touch(recency, req.book_id)
    /\ Done
    /\ UNCHANGED <<BOOK_DIRS, disk, fresh, extra, tasks>>

CallServeImage ==
    /\ req.pending
    /\ last' = serve_image(BOOK_DIRS, disk, req.book_id, req.image_name)
    /\ cache' = serve_image_cache(BOOK_DIRS, disk, cache, req.book_id, req.image_name)
    /\ Done
    /\ UNCHANGED <<BOOK_DIRS, disk, recency, fresh, extra, tasks>>

NextPure ==
    \/ CallResolve
    \/ CallLoad
    \/ CallReadChapter
    \/ CallServeImage

SpecPure == InitPure /\ [][NextPure]_vars

----------------------------------------------------------------------------
(* The library page and the requests that follow its links *)

\* requests of one run
MaxRequests == 2
\* the dir_index values run from -1 to MaxDir
MaxDir == 2

ROOT_UP_P == <<".", ".", "/", "P">>
ROOT_FILE == ROOT_N \o <<"/">> \o nZ
ROOT_NONE == <<"/", "Q">>

\* two roots, the second one relative; a single root; a root that is a file
\* before one that does not exist
LibraryConfigs == {<<ROOT_N, ROOT_UP_P>>, <<ROOT_P>>, <<ROOT_FILE, ROOT_NONE>>}

DirIndexes == {None} \cup {Some(i) : i \in (0 - 1)..MaxDir}

ListedIds == {scoped_id(0, nX), scoped_id(1, nX), scoped_id(1, nW)}
ListedChapters == {0, 1}
ListedImages == {nP, DOTDOT}

RECURSIVE TouchAll(_, _)
TouchAll(r, ids) ==
    IF ids = <<>> THEN r ELSE TouchAll(Touch(r, Head(ids)), Tail(ids))

InitLibrary ==
    /\ BOOK_DIRS \in LibraryConfigs
    /\ disk = Disk0
    /\ cache = <<>>
    /\ recency = <<>>
    /\ last = NoOutcome
    /\ fresh = 0
    /\ extra = 0
    /\ req = NoReq
    /\ tasks = <<>>

\* GET /?dir_index=...
LibraryView ==
    \E dir_index \in DirIndexes :
        \E items \in listdir_results(BOOK_DIRS, disk, dir_index) :
            /\ extra < MaxRequests
            /\ Handled(library_view(BOOK_DIRS, disk, cache, dir_index, items))
            /\ recency' = TouchAll(recency, last'.loaded)
            /\ extra' = extra + 1
            /\ UNCHANGED <<BOOK_DIRS, disk, fresh, req, tasks>>

\* GET /read/{book_id}/{chapter_index} of a listed book
ReadListed ==
    \E book_id \in ListedIds, chapter_index \in ListedChapters :
        /\ extra < MaxRequests
        /\ Handled(read_chapter(BOOK_DIRS, disk, cache, last, book_id, chapter_index))
        /\ recency' = Touch(recency, book_id)
        /\ extra' = extra + 1
        /\ UNCHANGED <<BOOK_DIRS, disk, fresh, req, tasks>>

\* GET /read/{book_id} of a listed book
RedirectListed ==
    \E book_id \in ListedIds :
        /\ extra < MaxRequests
        /\ Handled(redirect_to_first_chapter(BOOK_DIRS, disk, cache, last, book_id))
        /\ recency' = IF last'.status = "error" THEN recency
                      ELSE Touch(recency, book_id)
        /\ extra' = extra + 1
        /\ UNCHANGED <<BOOK_DIRS, disk, fresh, req, tasks>>

\* GET /read/{book_id}/images/{image_name} of a listed book
ImageListed ==
    \E book_id \in ListedIds, image_name \in ListedImages :
        /\ extra < MaxRequests
        /\ last' = serve_image(BOOK_DIRS, disk, book_id, image_name)
        /\ cache' = serve_image_cache(BOOK_DIRS, disk, cache, book_id, image_name)
        /\ extra' = extra + 1
        /\ UNCHANGED <<BOOK_DIRS, disk, recency, fresh, req, tasks>>

NextLibrary ==
    \/ LibraryView
    \/ ReadListed
    \/ RedirectListed
    \/ ImageListed

SpecLibrary == InitLibrary /\ [][NextLibrary]_vars

----------------------------------------------------------------------------
(* Loads while a producer rewrites the snapshot of one book folder *)

\* the snapshot the producer writes and removes: /L/a/book.pkl
Produced == <<nL, nA, PKL>>

\* what the producer writes
NewBook == BookFile(<<"A9">>)

\* the disk without the file at loc
Without(d, loc) ==
    [d EXCEPT !.files = [l \in DOMAIN d.files \ {loc} |-> d.files[l]]]

\* the disk with file f at loc, in place of what was there
With(d, loc, f) ==
    [d EXCEPT !.files = (loc :> f) @@ [l \in DOMAIN d.files \ {loc} |-> d.files[l]]]

SnapshotAppears ==
    /\ Produced \notin DOMAIN disk.files
    /\ disk' = With(disk, Produced, NewBook)
    /\ UNCHANGED <<BOOK_DIRS, cache, recency, last, fresh, extra, req, tasks>>

SnapshotChanges ==
    /\ Produced \in DOMAIN disk.files
    /\ disk.files[Produced] # NewBook
    /\ disk' = With(disk, Produced, NewBook)
    /\ UNCHANGED <<BOOK_DIRS, cache, recency, last, fresh, extra, req, tasks>>

SnapshotDisappears ==
    /\ Produced \in DOMAIN disk.files
    /\ disk' = Without(disk, Produced)
    /\ UNCHANGED <<BOOK_DIRS, cache, recency, last, fresh, extra, req, tasks>>

NextDisk ==
    \/ LoadBookCached
    \/ SnapshotAppears
    \/ SnapshotChanges
    \/ SnapshotDisappears

SpecDisk == Init /\ [][NextDisk]_vars

----------------------------------------------------------------------------
(* Concurrent requests on the event loop *)

\* requests of one run
MaxTasks == 3

\* a variant of suspends with a suspension point between the lookup of
\* load_book_cached and its load, as a lookup that awaited would have
suspends_after_lookup(point) == point = "lookup"

\* whether a coroutine can be suspended at a point of load_book_cached:
\* lines 46-62 are a plain def without await, and lines 117-120 reach it
\* without one, so the event loop runs nothing else before it returns
suspends(point) == FALSE

\* the cache after load_book_cached was called on each of ids in turn
RECURSIVE Warmed(_, _, _, _)
Warmed(dirs, d, c, ids) ==
    IF ids = <<>> THEN c
    ELSE Warmed(dirs, d, load_book_cached(dirs, d, c, Head(ids)).cache, Tail(ids))

\* the identifiers loaded before the concurrent requests arrive
WarmIds == SubSeq(IDS, 1, maxsize - 1)

WarmCache == Warmed(<<ROOT_L, ROOT_M>>, Disk0, <<>>, WarmIds)

\* the identifiers of the concurrent requests: one the cache holds as its
\* oldest entry, and three it does not hold
TaskIds == {IDS[1], IDS[10], IDS[11], IDS[12]}

NewTask(book_id) == [book_id |-> book_id, pc |-> "ready", out |-> NoOutcome]

InitLoop ==
    /\ BOOK_DIRS = <<ROOT_L, ROOT_M>>
    /\ disk = Disk0
    /\ cache = WarmCache
    /\ recency = WarmIds
    /\ last = NoOutcome
    /\ fresh = 0
    /\ extra = 0
    /\ req = NoReq
    /\ tasks = <<>>

\* GET /read/{book_id}/0 arrives: its coroutine is ready to run
Accept ==
    \E book_id \in TaskIds :
        /\ Len(tasks) < MaxTasks
        /\ tasks' = Append(tasks, NewTask(book_id))
        /\ UNCHANGED <<BOOK_DIRS, disk, cache, recency, last, fresh, extra, req>>

\* a coroutine that ran to its end, for r what read_chapter returned
finished(r) == [cache |-> r.cache, out |-> r.out, pc |-> "done"]

\* the event loop runs the coroutine of task t until it is suspended or ends
run_task(dirs, d, c, prev, t) ==
    IF t.pc = "ready" /\ lru_index(c, t.book_id) = 0 /\ suspends("lookup")
    THEN [cache |-> c, out |-> t.out, pc |-> "suspended"]
    ELSE IF t.pc = "suspended"
    THEN finished(read_chapter_with(prev, t.book_id, 0,
                      lru_miss_result(c, t.book_id, load_book(dirs, d, t.book_id))))
    ELSE finished(read_chapter(dirs, d, c, prev, t.book_id, 0))

\* the state after task number i ran, for r the result of run_task
Ran(i, r) ==
    /\ cache' = r.cache
    /\ tasks' = [tasks EXCEPT ![i] = [@ EXCEPT !.pc = r.pc, !.out = r.out]]
    /\ last' = IF r.pc = "done" THEN r.out ELSE last
    /\ recency' = IF r.pc = "done" THEN Touch(recency, tasks[i].book_id) ELSE recency

RunTask ==
    \E i \in 1..Len(tasks) :
        /\ tasks[i].pc # "done"
        /\ Ran(i, run_task(BOOK_DIRS, disk, cache, last, tasks[i]))
        /\ UNCHANGED <<BOOK_DIRS, disk, fresh, extra, req>>

NextLoop ==
    \/ Accept
    \/ RunTask

SpecLoop == InitLoop /\ [][NextLoop]_vars

----------------------------------------------------------------------------
(* Properties *)

Keys(c) == [i \in 1..Len(c) |-> c[i].key]

LastN(r, n) == SubSeq(r, Len(r) - n + 1, Len(r))

IsPrefix(a, b) == Len(a) <= Len(b) /\ SubSeq(b, 1, Len(a)) = a

InsideRoot(loc) == \E i \in 1..Len(BOOK_DIRS) : IsPrefix(Where(BOOK_DIRS[i]), loc)

\* C1: the cache never holds more than maxsize entries, and its keys are the
\* most recently requested distinct identifiers, least recent first; so an
\* eleventh identifier evicts exactly the one requested longest ago.
C1_MostRecentlyRequested ==
    /\ Len(cache) <= maxsize
    /\ Len(cache) = IF Len(recency) < maxsize THEN Len(recency) ELSE maxsize
    /\ Keys(cache) = LastN(recency, Len(cache))

\* an eleventh identifier was loaded after a hit had refreshed the first one:
\* the first is still cached and the second was evicted
C1_Witness ==
    /\ Len(recency) = maxsize + 1
    /\ Len(cache) = maxsize
    /\ recency[1] = IDS[2]
    /\ IDS[1] \in {cache[i].key : i \in 1..Len(cache)}
    /\ IDS[2] \notin {cache[i].key : i \in 1..Len(cache)}

\* C2: a load that directly follows a load of the same identifier is a hit: it
\* returns the value of the first, resolves nothing and opens no file, and
\* the two calls together resolve once when the first one missed.
C2_SecondLoadIsHit ==
    [][(last'.op \in LoadOps /\ last'.repeat)
        => /\ last'.hit
           /\ last'.value = last.value
           /\ last'.resolves = 0
           /\ IsNone(last'.opened)
           /\ (~last.hit => last.resolves + last'.resolves = 1)
           /\ Len(last.opened) + Len(last'.opened) <= 1]_vars

\* the second of two successive loads of an identifier with no snapshot
C2_Witness ==
    /\ last.op = "load_book_cached"
    /\ last.repeat
    /\ last.hit
    /\ IsNone(last.value)

\* the snapshot of book_id cannot be loaded: no path, no file, or a file that
\* does not deserialize
Unloadable(book_id) ==
    LET p == resolve_book_path(BOOK_DIRS, disk, book_id).path
    IN  \/ IsNone(p)
        \/ Locate(disk, The(p)) = NoLoc
        \/ Locate(disk, The(p)) \in disk.dirs
        \/ disk.files[Locate(disk, The(p))].kind # "book"

\* C3: a miss on an identifier whose snapshot cannot be loaded returns None
\* without an error and stores None as the newest entry; and entries that
\* hold None sit in the recency order like every other entry.
C3_AbsenceCached ==
    /\ (last.op = "load_book_cached" /\ ~last.hit /\ Unloadable(last.book_id))
        => /\ last.status = "ok"
           /\ IsNone(last.value)
           /\ cache # <<>>
           /\ cache[Len(cache)] = [key |-> last.book_id, value |-> None]
    /\ \A i \in 1..Len(cache) :
        IsNone(cache[i].value)
            => /\ Len(cache) <= Len(recency)
               /\ cache[i].key = recency[Len(recency) - Len(cache) + i]

\* a load whose deserialization raised stored None while the cache was full,
\* which evicted another entry that held None
C3_Witness ==
    /\ last.op = "load_book_cached"
    /\ last.how = "raised"
    /\ Len(recency) = maxsize + 1
    /\ Unloadable(recency[1])
    /\ cache[Len(cache)] = [key |-> last.book_id, value |-> None]

\* two paths name the same place by their text: both absolute or both
\* relative, with the same names in the same order
SamePath(p, q) == IsAbsolute(p) = IsAbsolute(q) /\ Names(p) = Names(q)

\* <root>/<name>
Under(root, name) == root \o <<"/">> \o name

HasColon(book_id) == \E i \in 1..Len(book_id) : book_id[i] = ":"

Prefix(book_id) == split1(book_id)[1]

\* the prefix before the first colon is an integer that indexes BOOK_DIRS
ValidScoped(book_id) ==
    /\ HasColon(book_id)
    /\ py_int(Prefix(book_id)).ok
    /\ py_int(Prefix(book_id)).val \in 0..(Len(BOOK_DIRS) - 1)

\* C4: a scoped identifier i:name with i in range resolves to
\* <roots[i]>/name/book.pkl and <roots[i]>/name, whatever the disk holds.
C4_ScopedUnderItsRoot ==
    (last.op = "resolve_book_path" /\ ValidScoped(last.book_id))
        => LET root == BOOK_DIRS[py_int(Prefix(last.book_id)).val + 1]
               name == split1(last.book_id)[2]
           IN  /\ ~IsNone(last.path)
               /\ ~IsNone(last.folder)
               /\ SamePath(The(last.path), Under(Under(root, name), PKL))
               /\ SamePath(The(last.folder), Under(root, name))

\* the roots, by number, under which the snapshot of folder book_id exists
UnscopedMatches(book_id) ==
    {i \in 1..Len(BOOK_DIRS) :
        os_path_exists(disk, os_path_join(<<BOOK_DIRS[i], book_id, PKL>>))}

\* unscoped resolution of book_id: the first root that has the snapshot
UnscopedResult(book_id) ==
    IF UnscopedMatches(book_id) = {} THEN [path |-> None, folder |-> None]
    ELSE LET root == BOOK_DIRS[SetMin(UnscopedMatches(book_id))]
         IN  [path |-> Some(os_path_join(<<root, book_id, PKL>>)),
              folder |-> Some(os_path_join(<<root, book_id>>))]

\* C5: an identifier with a colon whose prefix is no integer, or an integer
\* outside the roots' range, resolves without an error to what unscoped
\* resolution gives for the whole identifier as the folder name.
C5_BadPrefixIsUnscoped ==
    (last.op = "resolve_book_path" /\ HasColon(last.book_id)
        /\ ~ValidScoped(last.book_id))
        => /\ last.status = "ok"
           /\ [path |-> last.path, folder |-> last.folder]
                = UnscopedResult(last.book_id)

\* an identifier with a negative index that the fallback scan does not find
C5_Witness ==
    /\ last.op = "resolve_book_path"
    /\ HasColon(last.book_id)
    /\ py_int(Prefix(last.book_id)).ok
    /\ py_int(Prefix(last.book_id)).val < 0
    /\ IsNone(last.path)

\* the roots, by number, that hold <root>/<book_id>/book.pkl
RootsHolding(book_id) ==
    {i \in 1..Len(BOOK_DIRS) :
        os_path_exists(disk, Under(Under(BOOK_DIRS[i], book_id), PKL))}

\* C6: an identifier without a colon resolves to the snapshot and folder
\* under the first root that holds <root>/<id>/book.pkl, and to nothing when
\* no root holds it.
C6_FirstRootHolding ==
    (last.op = "resolve_book_path" /\ ~HasColon(last.book_id))
        => IF RootsHolding(last.book_id) = {}
           THEN IsNone(last.path) /\ IsNone(last.folder)
           ELSE LET root == BOOK_DIRS[SetMin(RootsHolding(last.book_id))]
                IN  /\ ~IsNone(last.path)
                    /\ ~IsNone(last.folder)
                    /\ SamePath(The(last.path),
                                Under(Under(root, last.book_id), PKL))
                    /\ SamePath(The(last.folder), Under(root, last.book_id))

\* C7: read_chapter answers not-found for an absent book and for an index
\* outside [0, N); otherwise it returns chapter k with prev = k-1 unless
\* k = 0 and next = k+1 unless k = N-1, and never wraps around.
C7_ChapterNavigation ==
    last.op = "read_chapter"
        => LET k == The(last.chapter_index)
           IN  IF IsNone(last.value) THEN last.status = "404"
               ELSE LET spine == The(last.value).spine
                        N == Len(spine)
                    IN  IF k \notin 0..(N - 1)
                        THEN last.status = "404" /\ IsNone(last.current_chapter)
                        ELSE /\ last.status = "ok"
                             /\ last.current_chapter = Some(spine[k + 1])
                             /\ last.prev_idx = (IF k = 0 THEN None ELSE Some(k - 1))
                             /\ last.next_idx = (IF k = N - 1 THEN None ELSE Some(k + 1))

\* the last chapter of a book of three chapters
C7_Witness ==
    /\ last.op = "read_chapter"
    /\ last.status = "ok"
    /\ ~IsNone(last.value)
    /\ Len(The(last.value).spine) = 3
    /\ last.chapter_index = Some(2)
    /\ last.prev_idx = Some(1)
    /\ IsNone(last.next_idx)

\* what a response shows of an outcome
View(o) ==
    [status |-> o.status, value |-> o.value, chapter_index |-> o.chapter_index,
     current_chapter |-> o.current_chapter, prev_idx |-> o.prev_idx,
     next_idx |-> o.next_idx]

\* C8: redirect_to_first_chapter(book_id) does what read_chapter does for
\* book_id and index 0: the same response and the same cache afterwards.
C8_RedirectIsChapterZero ==
    [][last'.op = "redirect_to_first_chapter"
        => LET r == read_chapter(BOOK_DIRS, disk, cache, last, last'.book_id, 0)
           IN  /\ View(last') = View(r.out)
               /\ cache' = r.cache]_vars

\* C9: the file serve_image returns lies inside the images folder of the
\* resolved book folder, whatever the image name.
C9_InsideImagesFolder ==
    (last.op = "serve_image" /\ last.status = "ok")
        => LET images == Locate(disk, os_path_join(<<The(last.folder), IMAGES>>))
           IN  /\ images # NoLoc
               /\ IsPrefix(images, Locate(disk, The(last.img_path)))

\* C10: every path resolve_book_path returns, every file load_book_cached
\* opens and every file serve_image returns lies inside a root directory.
C10_InsideRoots ==
    /\ (last.op = "resolve_book_path" /\ ~IsNone(last.path))
        => /\ InsideRoot(Where(The(last.path)))
           /\ InsideRoot(Where(The(last.folder)))
    /\ (last.op \in LoadOps /\ ~IsNone(last.opened))
        => InsideRoot(The(last.opened))
    /\ (last.op = "serve_image" /\ last.status = "ok")
        => InsideRoot(Locate(disk, The(last.img_path)))

\* the identifiers of the entries of a listing
ListedSet(o) == {o.books[i].id : i \in 1..Len(o.books)}

\* an uncached resolve-then-load of book_id finds a book
Loads(book_id) == ~IsNone(load_book(BOOK_DIRS, disk, book_id).value)

\* the names directly under a root that are directories and end in _data
DataFolders(root) ==
    {n \in Children(disk, Locate(disk, root)) :
        /\ Append(Locate(disk, root), n) \in disk.dirs
        /\ Len(n) >= 5
        /\ SubSeq(n, Len(n) - 4, Len(n)) = <<"_", "d", "a", "t", "a">>}

\* the folder n of a root holds a snapshot that deserializes
HoldsBook(root, n) ==
    /\ Append(Append(Locate(disk, root), n), PKL) \in DOMAIN disk.files
    /\ disk.files[Append(Append(Locate(disk, root), n), PKL)].kind = "book"

\* book_id reads as <index>:<folder>
IsScoped(book_id, index, folder) ==
    /\ HasColon(book_id)
    /\ py_int(Prefix(book_id)).ok
    /\ py_int(Prefix(book_id)).val = index
    /\ split1(book_id)[2] = folder

\* the listing o holds exactly one entry for each data folder of root number
\* index whose scoped identifier loads, and that entry carries the
\* scoped identifier and the book's number of chapters
ListsRoot(o, index) ==
    /\ o.status = "ok"
    /\ o.directories = <<>>
    /\ \A i, j \in 1..Len(o.books) : o.books[i].id = o.books[j].id => i = j
    /\ \A i \in 1..Len(o.books) :
        \E n \in DataFolders(BOOK_DIRS[index + 1]) :
            /\ IsScoped(o.books[i].id, index, n)
            /\ Loads(o.books[i].id)
            /\ o.books[i].chapters
                 = Len(disk.files[Append(Append(Locate(disk, BOOK_DIRS[index + 1]), n),
                                         PKL)].spine)
    /\ \A n \in DataFolders(BOOK_DIRS[index + 1]) :
        HoldsBook(BOOK_DIRS[index + 1], n)
            => \E i \in 1..Len(o.books) : IsScoped(o.books[i].id, index, n)

\* the root is a directory, or does not exist
Listable(root) == Locate(disk, root) \in disk.dirs \cup {NoLoc}

C12_FoundOrNotFound ==
    last.op \in {"library_view", "read_chapter", "redirect_to_first_chapter",
                 "serve_image"}
        => last.status \in {"ok", "404"}

\* C13: with the roots and the disk fixed the cache is transparent: whatever
\* was loaded, hit and evicted before, every value load_book_cached returns,
\* and every value the cache holds, is the value an uncached
\* resolve-then-load of the same identifier returns.
C13_CacheTransparent ==
    /\ \A i \in 1..Len(cache) :
        cache[i].value = load_book(BOOK_DIRS, disk, cache[i].key).value
    /\ last.op \in LoadOps
        => last.value = load_book(BOOK_DIRS, disk, last.book_id).value

\* a hit that returns a book after an eleventh identifier evicted an entry
C13_Witness ==
    /\ last.op = "load_book_cached"
    /\ last.hit
    /\ ~IsNone(last.value)
    /\ Len(recency) = maxsize + 1
    /\ Len(cache) = maxsize

\* a step that is a load: a request was charged
LoadStep == <<fresh, extra>>' # <<fresh, extra>>

\* how many other identifiers were requested since book_id was last requested
OthersSince(book_id) ==
    Len(recency) - SetMax({i \in 1..Len(recency) : recency[i] = book_id})

\* C14: while the entry of an identifier stays in the cache, which it does
\* until maxsize other distinct identifiers have been requested since, every
\* load returns the entry's value without reading the disk, be it None with
\* the snapshot there by now or a book whose snapshot changed or went away;
\* a load after the eviction reads the disk again.
C14_StaleUntilEvicted ==
    [][LoadStep
        => LET id == last'.book_id
               i == lru_index(cache, id)
           IN  /\ i # 0 <=> (\E k \in 1..Len(recency) : recency[k] = id)
                            /\ OthersSince(id) < maxsize
               /\ i # 0 => /\ last'.hit
                           /\ last'.value = cache[i].value
                           /\ IsNone(last'.opened)
               /\ i = 0 => /\ ~last'.hit
                           /\ last'.value = load_book(BOOK_DIRS, disk, id).value]_vars

\* a hit that returns None for an identifier whose snapshot is on disk by now
C14_Witness ==
    /\ last.op = "load_book_cached"
    /\ last.hit
    /\ IsNone(last.value)
    /\ Loads(last.book_id)

\* the tasks, by number, that ran to their end
DoneTasks == {i \in 1..Len(tasks) : tasks[i].pc = "done"}

\* the cache after the requests of tasks order[1], order[2], ... ran one
\* after the other, each from start to end, from cache c on
RECURSIVE SerialCache(_, _)
SerialCache(c, order) ==
    IF order = <<>> THEN c
    ELSE SerialCache(load_book_cached(BOOK_DIRS, disk, c, tasks[Head(order)].book_id).cache,
                     Tail(order))

\* whether each request hits when the tasks run one after the other
RECURSIVE SerialHits(_, _)
SerialHits(c, order) ==
    IF order = <<>> THEN <<>>
    ELSE <<load_book_cached(BOOK_DIRS, disk, c, tasks[Head(order)].book_id).hit>>
         \o SerialHits(load_book_cached(BOOK_DIRS, disk, c, tasks[Head(order)].book_id).cache,
                       Tail(order))

\* C15: requests run on the event loop as if one after the other: an
\* identifier the cache did not hold is loaded by exactly one of the requests
\* for it and has exactly one entry, and the cache, its order and every
\* request's hit or miss are those of some serial order of the requests.
C15_SerialOnEventLoop ==
    /\ \A i \in 1..Len(tasks) : tasks[i].pc \in {"ready", "done"}
    /\ \A i \in DoneTasks :
        tasks[i].book_id \notin {WarmIds[k] : k \in 1..Len(WarmIds)}
            => /\ Cardinality({j \in DoneTasks : tasks[j].book_id = tasks[i].book_id
                                                 /\ ~tasks[j].out.hit}) = 1
               /\ Cardinality({k \in 1..Len(cache) : cache[k].key = tasks[i].book_id}) = 1
    /\ \E order \in Orders(DoneTasks) :
        /\ SerialCache(WarmCache, order) = cache
        /\ SerialHits(WarmCache, order) = [k \in 1..Len(order) |-> tasks[order[k]].out.hit]

\* two requests for an identifier the cache did not hold have both ended,
\* the second one accepted before the first one ran, and a third request
\* evicted an entry
C15_Witness ==
    /\ Len(tasks) = 3
    /\ DoneTasks = {1, 2, 3}
    /\ tasks[1].book_id = IDS[11]
    /\ tasks[2].book_id = IDS[11]
    /\ tasks[3].book_id = IDS[12]
    /\ tasks[1].out.hit
    /\ ~tasks[2].out.hit
    /\ Len(cache) = maxsize
    /\ IDS[1] \notin {cache[k].key : k \in 1..Len(cache)}

\* C16: a request changes neither the roots nor the disk nor a cached book:
\* an entry the cache held before and holds after has the value it had, and
\* an entry that is new holds what the disk holds; only which entries the
\* cache holds, and their order, change.
C16_RequestsOnlyReadBooks ==
    [][/\ BOOK_DIRS' = BOOK_DIRS
       /\ disk' = disk
       /\ \A k \in 1..Len(cache') :
            /\ \A i \in 1..Len(cache) :
                cache[i].key = cache'[k].key => cache[i].value = cache'[k].value
            /\ cache'[k].value = load_book(BOOK_DIRS, disk, cache'[k].key).value]_vars

\* a chapter was served from a book the listing had put in the cache
C16_Witness ==
    /\ last.op = "read_chapter"
    /\ last.status = "ok"
    /\ last.hit
    /\ Len(cache) >= 2
    /\ \E i \in 1..Len(cache) :
        cache[i].key = last.book_id /\ cache[i].value = last.value

\* C17: serve_image leaves the cache as it is, entries and order, whether it
\* returns a file or not-found: it admits, evicts and refreshes nothing.
C17_ImageBypassesCache ==
    [][last'.op = "serve_image"
        => /\ cache' = cache
           /\ recency' = recency
           /\ last'.status \in {"ok", "404"}]_vars

\* an image was served for a book the full cache does not hold
C17_Witness ==
    /\ last.op = "serve_image"
    /\ last.status = "ok"
    /\ Len(cache) = maxsize
    /\ last.book_id \notin {cache[i].key : i \in 1..Len(cache)}

====
